---------------------------- MODULE Spec2Model ----------------------------
(***************************************************************************)
(* A model of the request handlers of src/main.go (the "beaten games"      *)
(* collector): the router's handlers, the storage gateway they call        *)
(* (package data), the search provider (package giantbomb) and the         *)
(* net/http response writer.  Several requests are served concurrently,    *)
(* one goroutine each, as net/http does.                                   *)
(***************************************************************************)
EXTENDS Integers, Sequences, FiniteSets, TLC

\* Number of requests served (concurrently) in one behaviour.
MaxReq == 2
\* Number of times the server clock advances in one behaviour.
MaxTicks == 1

Requests == 1..MaxReq

-----------------------------------------------------------------------------
(* HTTP status codes used by the handlers (net/http constants).            *)
StatusOK == 200
StatusTemporaryRedirect == 307
StatusBadRequest == 400
StatusInternalServerError == 500

-----------------------------------------------------------------------------
(* Text values.  A submitted date is a sequence of one-character strings   *)
(* so that time.Parse can be modelled character by character.              *)

DigitValue == ("0" :> 0) @@ ("1" :> 1) @@ ("2" :> 2) @@ ("3" :> 3) @@ ("4" :> 4)
              @@ ("5" :> 5) @@ ("6" :> 6) @@ ("7" :> 7) @@ ("8" :> 8) @@ ("9" :> 9)

isDigit(s, i) == i <= Len(s) /\ s[i] \in DOMAIN DigitValue

\* time.atoi / getnum on a string already known to hold only digits.
RECURSIVE atoi(_)
atoi(s) == IF Len(s) = 0 THEN 0
           ELSE 10 * atoi(SubSeq(s, 1, Len(s) - 1)) + DigitValue[s[Len(s)]]

AllDigits(s) == \A i \in 1..Len(s) : isDigit(s, i)

isLeap(year) == year % 4 = 0 /\ (year % 100 # 0 \/ year % 400 = 0)

daysIn(month, year) ==
    IF month = 2 THEN (IF isLeap(year) THEN 29 ELSE 28)
    ELSE IF month \in {4, 6, 9, 11} THEN 30 ELSE 31

\* A time.Time, to the hour, in UTC.
Time(y, m, d, h) == [year |-> y, month |-> m, day |-> d, hour |-> h]

\* The zero time.Time: January 1, year 1, 00:00 UTC.
ZeroTime == Time(1, 1, 1, 0)

\* time.Parse("2006-01-02", s): four digits, "-", two digits, "-", two
\* digits and nothing after; the month in 1..12 and the day in the month.
ParseDate(s) ==
    LET bad == [err |-> TRUE, t |-> ZeroTime] IN
    IF Len(s) < 4 \/ ~AllDigits(SubSeq(s, 1, 4)) THEN bad
    ELSE IF Len(s) < 5 \/ s[5] # "-" THEN bad
    ELSE IF Len(s) < 7 \/ ~AllDigits(SubSeq(s, 6, 7)) THEN bad
    ELSE IF Len(s) < 8 \/ s[8] # "-" THEN bad
    ELSE IF Len(s) < 10 \/ ~AllDigits(SubSeq(s, 9, 10)) THEN bad
    ELSE IF Len(s) > 10 THEN bad
    ELSE LET y == atoi(SubSeq(s, 1, 4))
             m == atoi(SubSeq(s, 6, 7))
             d == atoi(SubSeq(s, 9, 10))
         IN IF m <= 0 \/ 12 < m THEN bad
            ELSE IF d < 1 \/ d > daysIn(m, y) THEN bad
            ELSE [err |-> FALSE, t |-> Time(y, m, d, 0)]

\* The server clock twelve hours later (the model's clock step).
AddHalfDay(t) ==
    IF t.hour < 12 THEN Time(t.year, t.month, t.day, t.hour + 12)
    ELSE IF t.day < daysIn(t.month, t.year)
         THEN Time(t.year, t.month, t.day + 1, t.hour - 12)
    ELSE IF t.month < 12 THEN Time(t.year, t.month + 1, 1, t.hour - 12)
    ELSE Time(t.year + 1, 1, 1, t.hour - 12)


-----------------------------------------------------------------------------
(* Requests.  url.Values maps a key to the list of its values; a key that  *)
(* was not submitted is not in the map.                                    *)

NoValues == [k \in {} |-> <<>>]

\* url.Values.Get: the first value of the key, "" when there is none.
Get(vals, key) ==
    IF key \in DOMAIN vals /\ Len(vals[key]) > 0 THEN vals[key][1] ELSE ""

DateValid     == <<"2", "0", "2", "0", "-", "1", "2", "-", "1", "0">>
DateLeapDay   == <<"2", "0", "2", "0", "-", "0", "2", "-", "2", "9">>
DateNoSuchDay == <<"2", "0", "2", "1", "-", "0", "2", "-", "2", "9">>
DateBadMonth  == <<"2", "0", "2", "0", "-", "1", "3", "-", "0", "1">>
DateExtraText == <<"2", "0", "2", "0", "-", "1", "2", "-", "1", "0", "x">>
DateNotADate  == <<"n", "o", "t", "-", "a", "-", "d", "a", "t", "e">>
DateEmpty     == <<>>

DateInputs == {DateValid, DateLeapDay, DateNoSuchDay, DateBadMonth,
               DateExtraText, DateNotADate, DateEmpty}

\* Submitted forms of a full add: with and without a note, and with
\* every kind of beaten_on value, or none.
AddForms ==
    {("name" :> <<"Hades">>) @@ ("beaten_on" :> <<d>>) : d \in DateInputs \ {DateLeapDay}}
    \cup {("name" :> <<"Celeste">>) @@ ("note" :> <<"gg">>) @@ ("beaten_on" :> <<d>>) :
             d \in {DateLeapDay, DateNotADate}}
    \cup {("name" :> <<"Hades">>)}

QuickAddForms == {
    ("name" :> <<"Celeste">>),
    ("name" :> <<"Hades">>) @@ ("beaten_on" :> <<DateValid>>) }

DeleteForms == {("name" :> <<"Hades">>), ("name" :> <<"Celeste">>)}

SuggestQueries == {NoValues, ("q" :> <<"">>), ("q" :> <<"zelda">>)}

\* The {id:[0-9]+} path variable: a short number, the same number written
\* with twenty digits, the least number an int (of 64 bits) cannot hold, and
\* one of twenty significant digits.
ShortID == <<"7">>
PaddedID == <<"0", "0", "0", "0", "0", "0", "0", "0", "0", "0",
              "0", "0", "0", "0", "0", "0", "0", "0", "0", "7">>
OverflowID == <<"9", "2", "2", "3", "3", "7", "2", "0", "3", "6",
                "8", "5", "4", "7", "7", "5", "8", "0", "8">>
LongID  == <<"1", "0", "0", "0", "0", "0", "0", "0", "0", "0",
             "0", "0", "0", "0", "0", "0", "0", "0", "0", "0">>

Request(kind, method, formErr, form, query, id) ==
    [kind |-> kind, method |-> method, formErr |-> formErr,
     form |-> form, query |-> query, id |-> id]

NoRequest == Request("none", "", FALSE, NoValues, NoValues, <<>>)

\* What makeRouter dispatches to each handler.  A body that does not parse
\* (formErr) still leaves the pairs that did parse in r.Form.
IndexRequests == {Request("index", "GET", FALSE, NoValues, NoValues, <<>>)}

GameRequests ==
    {Request("game", "GET", FALSE, NoValues, NoValues, id) : id \in {ShortID, PaddedID, OverflowID, LongID}}

AddPageRequests == {Request("add", "GET", FALSE, NoValues, NoValues, <<>>)}

AddRequests ==
    {Request("add", "POST", FALSE, f, NoValues, <<>>) : f \in AddForms}
    \cup {Request("add", "POST", TRUE,
                  ("name" :> <<"Hades">>) @@ ("beaten_on" :> <<DateValid>>),
                  NoValues, <<>>)}

QuickAddRequests ==
    {Request("quickAdd", "POST", FALSE, f, NoValues, <<>>) : f \in QuickAddForms}
    \cup {Request("quickAdd", "POST", TRUE, ("name" :> <<"Celeste">>), NoValues, <<>>)}

DeleteRequests ==
    {Request("delete", "POST", FALSE, f, NoValues, <<>>) : f \in DeleteForms}
    \cup {Request("delete", "POST", TRUE, ("name" :> <<"Hades">>), NoValues, <<>>)}

SuggestRequests ==
    {Request("suggest", "GET", FALSE, NoValues, q, <<>>) : q \in SuggestQueries}

-----------------------------------------------------------------------------
(* Errors.  Nil is Go's nil error.                                         *)
Nil == "nil"
ErrStorage == "sql: database is closed"
ErrSearch == "giantbomb: request failed"
ErrMarshal == "json: unsupported value"
ErrTemplateParse == "open templates/base.html: no such file or directory"
ErrTemplateExec == "template: base: error calling method"
ErrAtoi == "strconv.Atoi: value out of range"

StorageOutcomes == {Nil, ErrStorage}
SearchOutcomes == {Nil, ErrSearch}
MarshalOutcomes == {Nil, ErrMarshal}
TemplateOutcomes == {Nil, ErrTemplateParse, ErrTemplateExec}

-----------------------------------------------------------------------------
(* Domain records: data.Game with sql.NullString and data.NullTime.        *)
NullString(s, valid) == [String |-> s, Valid |-> valid]
NullTime(t, valid) == [Time |-> t, Valid |-> valid]

\* var game data.Game: every field at its zero value.
ZeroGame == [ID |-> 0, Name |-> "", Note |-> NullString("", FALSE),
             BeatenOn |-> NullTime(ZeroTime, FALSE)]

-----------------------------------------------------------------------------
(* The http.ResponseWriter of one request: status 0 until the header is    *)
(* written, and the body as the list of the chunks written.                *)
NewResponse == [status |-> 0, body |-> <<>>, location |-> ""]

\* The header is written once; a second WriteHeader is ignored.
WriteHeader(w, code) == IF w.status = 0 THEN [w EXCEPT !.status = code] ELSE w

\* Write sends the header with 200 first, when it was not sent yet.
Write(w, chunk) ==
    [WriteHeader(w, StatusOK) EXCEPT !.body = Append(@, chunk)]

\* http.Error: WriteHeader(code), then the message as the body.
Error(w, msg, code) == Write(WriteHeader(w, code), msg)

\* http.Redirect: the Location header and the status; a body only for GET.
Redirect(w, method, url, code) ==
    LET h == WriteHeader([w EXCEPT !.location = url], code)
    IN IF method = "GET" THEN Write(h, "<a href>") ELSE h

\* When a handler returns without having written, net/http sends 200.
finishRequest(w) == WriteHeader(w, StatusOK)

PartialPage == "partial page"

\* executeTemplates: parse the files (nothing is written on failure), then
\* execute into the writer, which may fail after part was written.
executeTemplates(w, outcome, filename) ==
    IF outcome = Nil THEN [w |-> Write(w, filename), err |-> Nil]
    ELSE IF outcome = ErrTemplateParse THEN [w |-> w, err |-> outcome]
    ELSE [w |-> Write(w, PartialPage), err |-> outcome]

-----------------------------------------------------------------------------
(* The storage gateway (package data) over the games table.                *)
AddGameRows(rows, id, g) == Append(rows, [g EXCEPT !.ID = id])

DeleteGameRows(rows, name) == SelectSeq(rows, LAMBDA g : g.Name # name)

RowsAffected(rows, name) == Len(rows) - Len(DeleteGameRows(rows, name))

Call(op, arg, err, rows) == [op |-> op, arg |-> arg, err |-> err, rows |-> rows]

\* The field list suggestGamesHandler sets before it searches.
GameFieldList == <<"id", "name", "platforms">>

StartTime == Time(2020, 12, 31, 12)

HadesRow(id) == [ID |-> id, Name |-> "Hades", Note |-> NullString("", TRUE),
                 BeatenOn |-> NullTime(Time(2020, 12, 10, 0), TRUE)]

VARIABLES
    req,        \* req[r]: the request goroutine r serves
    pc,         \* pc[r]: where the handler of r stands
    local,      \* local[r]: what the handler read from the form, if it did:
                \* the data.Game of an add, the name of a delete
    call,       \* call[r]: the storage and search calls r made, in order
    resp,       \* resp[r]: the response writer of r
    games,      \* the rows of the games table
    nextId,     \* the next generated id
    log,        \* what was passed to log.Println, and by which request
    FieldList,  \* giantbomb.FieldList, a package-level variable
    fieldListWriter,  \* the request that last assigned FieldList (0: none)
    now,        \* the server clock
    ticks       \* how often the clock advanced

vars == <<req, pc, local, call, resp, games, nextId, log, FieldList,
          fieldListWriter, now, ticks>>

Init ==
    /\ req = [r \in Requests |-> NoRequest]
    /\ pc = [r \in Requests |-> "idle"]
    /\ local = [r \in Requests |-> <<>>]
    /\ call = [r \in Requests |-> <<>>]
    /\ resp = [r \in Requests |-> NewResponse]
    /\ games \in {<<>>, <<HadesRow(1), HadesRow(2)>>}
    /\ nextId = Len(games) + 1
    /\ log = {}
    /\ FieldList = <<>>
    /\ fieldListWriter = 0
    /\ now = StartTime
    /\ ticks = 0

\* The handler of r returns with writer w.
Return(r, w) ==
    /\ resp' = [resp EXCEPT ![r] = finishRequest(w)]
    /\ pc' = [pc EXCEPT ![r] = "done"]

\* The handler of r panics: net/http recovers, logs and closes the
\* connection; what was not written is never sent.
Panic(r) ==
    /\ pc' = [pc EXCEPT ![r] = "panicked"]
    /\ UNCHANGED resp

Println(r, err) == log' = log \cup {[req |-> r, err |-> err]}

\* The server hands request q to a new goroutine r, which starts the
\* handler; requests are numbered as they arrive.
Serve(r, q) ==
    /\ pc[r] = "idle"
    /\ \A p \in Requests : p < r => pc[p] # "idle"
    /\ req' = [req EXCEPT ![r] = q]

Tick ==
    /\ ticks < MaxTicks
    /\ now' = AddHalfDay(now)
    /\ ticks' = ticks + 1
    /\ UNCHANGED <<req, pc, local, call, resp, games, nextId, log, FieldList,
                   fieldListWriter>>

-----------------------------------------------------------------------------
(* indexHandler                                                            *)

indexHandlerGetAllGames(r) ==
    /\ \E q \in IndexRequests : Serve(r, q)
    /\ \E err \in StorageOutcomes :
        /\ call' = [call EXCEPT ![r] = Append(@, Call("GetAllGames", "", err, 0))]
        /\ IF err # Nil
           THEN /\ Println(r, err)
                /\ Return(r, Error(resp[r], "Failed to get games.",
                                   StatusInternalServerError))
           ELSE /\ pc' = [pc EXCEPT ![r] = "render"]
                /\ UNCHANGED <<resp, log>>
    /\ UNCHANGED <<local, games, nextId, FieldList, fieldListWriter, now, ticks>>

indexHandlerRender(r) ==
    /\ pc[r] = "render" /\ req[r].kind = "index"
    /\ \E outcome \in TemplateOutcomes :
        LET res == executeTemplates(resp[r], outcome, "templates/index.html")
        IN Return(r, IF res.err # Nil
                     THEN Error(res.w, res.err, StatusInternalServerError)
                     ELSE res.w)
    /\ UNCHANGED <<req, local, call, games, nextId, log, FieldList,
                   fieldListWriter, now, ticks>>

-----------------------------------------------------------------------------
(* gameHandler                                                             *)

\* The digits of the greatest int, 1<<63 - 1 (int has 64 bits on the
\* platforms the server is built for).
MaxInt64Digits == <<"9", "2", "2", "3", "3", "7", "2", "0", "3", "6",
                    "8", "5", "4", "7", "7", "5", "8", "0", "7">>

\* The digits without their leading zeros, which do not change the value.
RECURSIVE StripZeros(_)
StripZeros(s) == IF Len(s) > 1 /\ s[1] = "0" THEN StripZeros(Tail(s)) ELSE s

\* Whether a names a greater number than b, both of the same length.
RECURSIVE DigitsGreater(_, _)
DigitsGreater(a, b) ==
    IF Len(a) = 0 THEN FALSE
    ELSE IF DigitValue[a[1]] # DigitValue[b[1]]
    THEN DigitValue[a[1]] > DigitValue[b[1]]
    ELSE DigitsGreater(Tail(a), Tail(b))

\* strconv.Atoi of a string of digits: it fails when the value is greater
\* than the greatest int ("value out of range"), whatever the length.
Atoi(s) ==
    LET d == StripZeros(s) IN
    IF Len(d) > Len(MaxInt64Digits)
          \/ (Len(d) = Len(MaxInt64Digits) /\ DigitsGreater(d, MaxInt64Digits))
    THEN ErrAtoi ELSE Nil

gameHandler(r) ==
    /\ \E q \in GameRequests, outcome \in TemplateOutcomes :
        /\ Serve(r, q)
        /\ IF Atoi(q.id) # Nil
           THEN Return(r, Error(resp[r], "Failed to parse game ID.",
                                StatusInternalServerError))
           ELSE LET res == executeTemplates(resp[r], outcome, "templates/game.html")
                IN Return(r, IF res.err # Nil
                             THEN Error(res.w, "Failed to execute template.",
                                        StatusInternalServerError)
                             ELSE res.w)
    /\ UNCHANGED <<local, call, games, nextId, log, FieldList,
                   fieldListWriter, now, ticks>>

-----------------------------------------------------------------------------
(* addHandler                                                              *)

addHandlerGet(r) ==
    /\ \E q \in AddPageRequests : Serve(r, q)
    /\ \E outcome \in TemplateOutcomes :
        LET res == executeTemplates(resp[r], outcome, "templates/add.html")
        IN Return(r, IF res.err # Nil
                     THEN Error(res.w, "Failed to execute template.",
                                StatusInternalServerError)
                     ELSE res.w)
    /\ UNCHANGED <<local, call, games, nextId, log, FieldList,
                   fieldListWriter, now, ticks>>

\* A plausible slip: the error of ParseForm is dropped.
ParseFormErrorIgnored(q) == FALSE

\* r.ParseForm(): whether it returns an error.
ParseForm(q) == q.formErr

\* A plausible slip: a blank note is stored as no note.
addHandlerNameNoteBlankIsAbsent(vals) ==
    [ZeroGame EXCEPT !.Name = Get(vals, "name"),
                     !.Note = NullString(Get(vals, "note"), Get(vals, "note") # "")]

\* game.Name and game.Note of a full add: the note is always Valid.
addHandlerNameNote(vals) ==
    [ZeroGame EXCEPT !.Name = Get(vals, "name"),
                     !.Note = NullString(Get(vals, "note"), TRUE)]

\* A plausible slip: a date that does not parse is stored as the zero time.
addHandlerGameBadDateAccepted(vals) ==
    LET g == addHandlerNameNote(vals) IN
    IF "beaten_on" \notin DOMAIN vals \/ Len(vals["beaten_on"]) = 0
    THEN [outcome |-> "panic", game |-> g]
    ELSE LET s == vals["beaten_on"][1]
             parsed == ParseDate(s)
         IN [outcome |-> "ok",
             game |-> [g EXCEPT !.BeatenOn = NullTime(parsed.t, TRUE)]]

\* The beaten_on branch of addHandler: r.Form["beaten_on"][0] panics when
\* the key has no value; a non-empty value is parsed; an empty one leaves
\* the zero time, marked Valid.
addHandlerGame(vals) ==
    LET g == addHandlerNameNote(vals) IN
    IF "beaten_on" \notin DOMAIN vals \/ Len(vals["beaten_on"]) = 0
    THEN [outcome |-> "panic", game |-> g]
    ELSE LET s == vals["beaten_on"][1] IN
         IF Len(s) > 0
         THEN LET parsed == ParseDate(s) IN
              IF parsed.err
              THEN [outcome |-> "bad date", game |-> g]
              ELSE [outcome |-> "ok",
                    game |-> [g EXCEPT !.BeatenOn = NullTime(parsed.t, TRUE)]]
         ELSE [outcome |-> "ok",
               game |-> [g EXCEPT !.BeatenOn = NullTime(ZeroTime, TRUE)]]

\* A POST arrives: ParseForm and the construction of the game, up to the
\* storage call.
addHandlerParse(r) ==
    /\ \E q \in AddRequests :
        /\ Serve(r, q)
        /\ IF ParseForm(q)
           THEN /\ Return(r, Error(resp[r], "Failed to parse submitted form.",
                                   StatusInternalServerError))
                /\ UNCHANGED local
           ELSE LET built == addHandlerGame(q.form) IN
                /\ local' = [local EXCEPT ![r] = <<built.game>>]
                /\ IF built.outcome = "panic" THEN Panic(r)
                   ELSE IF built.outcome = "bad date"
                   THEN Return(r, Error(resp[r], "Failed to parse date.",
                                        StatusBadRequest))
                   ELSE /\ pc' = [pc EXCEPT ![r] = "store"]
                        /\ UNCHANGED resp
    /\ UNCHANGED <<call, games, nextId, log, FieldList, fieldListWriter,
                   now, ticks>>

\* data.AddGame(game), called by addHandler and by quickAddHandler: the
\* insert either fails and changes nothing, or adds one row with a new id.
AddGame(r) ==
    /\ pc[r] = "store" /\ req[r].kind \in {"add", "quickAdd"}
    /\ \E err \in StorageOutcomes :
        /\ call' = [call EXCEPT ![r] = Append(@, Call("AddGame", local[r][1], err, 0))]
        /\ IF err = Nil
           THEN /\ games' = AddGameRows(games, nextId, local[r][1])
                /\ nextId' = nextId + 1
           ELSE UNCHANGED <<games, nextId>>
    /\ pc' = [pc EXCEPT ![r] = "respond"]
    /\ UNCHANGED <<req, local, resp, log, FieldList, fieldListWriter, now, ticks>>

\* The result of the call the handler of r is waiting on.
LastCall(r) == call[r][Len(call[r])]

addHandlerRespond(r) ==
    /\ pc[r] = "respond" /\ req[r].kind = "add"
    /\ IF LastCall(r).err # Nil
       THEN Return(r, Error(resp[r], "Failed to add a game.",
                            StatusInternalServerError))
       ELSE Return(r, Redirect(resp[r], req[r].method, "/",
                               StatusTemporaryRedirect))
    /\ UNCHANGED <<req, local, call, games, nextId, log, FieldList,
                   fieldListWriter, now, ticks>>

-----------------------------------------------------------------------------
(* quickAddHandler                                                         *)

\* A plausible slip: the note is built as in addHandler.
quickAddHandlerGameNotePresent(vals, clock) ==
    [ZeroGame EXCEPT !.Name = Get(vals, "name"),
                     !.Note = NullString(Get(vals, "note"), TRUE),
                     !.BeatenOn = NullTime(clock, TRUE)]

\* The game of a quick add: no note, and the server's time.Now().
quickAddHandlerGame(vals, clock) ==
    [ZeroGame EXCEPT !.Name = Get(vals, "name"),
                     !.Note = NullString("", FALSE),
                     !.BeatenOn = NullTime(clock, TRUE)]

quickAddHandlerParse(r) ==
    /\ \E q \in QuickAddRequests :
        /\ Serve(r, q)
        /\ IF ParseForm(q)
           THEN /\ Return(r, Error(resp[r], "Failed to parse submitted form.",
                                   StatusInternalServerError))
                /\ UNCHANGED local
           ELSE /\ local' = [local EXCEPT ![r] = <<quickAddHandlerGame(q.form, now)>>]
                /\ pc' = [pc EXCEPT ![r] = "store"]
                /\ UNCHANGED resp
    /\ UNCHANGED <<call, games, nextId, log, FieldList, fieldListWriter,
                   now, ticks>>

quickAddHandlerRespond(r) ==
    /\ pc[r] = "respond" /\ req[r].kind = "quickAdd"
    /\ IF LastCall(r).err # Nil
       THEN /\ Println(r, LastCall(r).err)
            /\ Return(r, Error(resp[r], "Failed to add a game.",
                               StatusInternalServerError))
       ELSE /\ Return(r, WriteHeader(resp[r], StatusOK))
            /\ UNCHANGED log
    /\ UNCHANGED <<req, local, call, games, nextId, FieldList, fieldListWriter,
                   now, ticks>>

-----------------------------------------------------------------------------
(* deleteHandler                                                           *)

deleteHandlerParse(r) ==
    /\ \E q \in DeleteRequests :
        /\ Serve(r, q)
        /\ IF ParseForm(q)
           THEN /\ Return(r, Error(resp[r], "Failed to parse submitted form.",
                                   StatusInternalServerError))
                /\ UNCHANGED local
           ELSE /\ local' = [local EXCEPT ![r] = <<Get(q.form, "name")>>]
                /\ pc' = [pc EXCEPT ![r] = "store"]
                /\ UNCHANGED resp
    /\ UNCHANGED <<call, games, nextId, log, FieldList, fieldListWriter,
                   now, ticks>>

\* data.DeleteGame(name): the delete either fails and changes nothing, or
\* removes every row of that name and reports how many there were.
DeleteGame(r) ==
    /\ pc[r] = "store" /\ req[r].kind = "delete"
    /\ \E err \in StorageOutcomes :
        LET name == local[r][1] IN
        IF err = Nil
        THEN /\ call' = [call EXCEPT ![r] =
                    Append(@, Call("DeleteGame", name, err, RowsAffected(games, name)))]
             /\ games' = DeleteGameRows(games, name)
        ELSE /\ call' = [call EXCEPT ![r] = Append(@, Call("DeleteGame", name, err, 0))]
             /\ UNCHANGED games
    /\ pc' = [pc EXCEPT ![r] = "respond"]
    /\ UNCHANGED <<req, local, resp, nextId, log, FieldList, fieldListWriter,
                   now, ticks>>

\* A plausible slip: no row deleted is reported as a server error.
deleteHandlerAnswerNotFoundIs500(w, c) ==
    IF c.err # Nil \/ c.rows = 0
    THEN Error(w, "Failed to delete a game.", StatusInternalServerError)
    ELSE WriteHeader(w, StatusOK)

\* A plausible slip: the number of rows is not looked at.
deleteHandlerAnswerNoRowCheck(w, c) ==
    IF c.err # Nil
    THEN Error(w, "Failed to delete a game.", StatusInternalServerError)
    ELSE WriteHeader(w, StatusOK)

\* What deleteHandler answers to the result of data.DeleteGame.
deleteHandlerAnswer(w, c) ==
    IF c.err # Nil
    THEN Error(w, "Failed to delete a game.", StatusInternalServerError)
    ELSE IF c.rows = 0
    THEN Error(w, "Can't find this game.", StatusBadRequest)
    ELSE WriteHeader(w, StatusOK)

deleteHandlerRespond(r) ==
    /\ pc[r] = "respond" /\ req[r].kind = "delete"
    /\ IF LastCall(r).err # Nil THEN Println(r, LastCall(r).err) ELSE UNCHANGED log
    /\ Return(r, deleteHandlerAnswer(resp[r], LastCall(r)))
    /\ UNCHANGED <<req, local, call, games, nextId, FieldList, fieldListWriter,
                   now, ticks>>

-----------------------------------------------------------------------------
(* suggestGamesHandler                                                     *)

\* query, ok := qvals["q"]
suggestGamesHandlerHasQuery(qvals) == "q" \in DOMAIN qvals

\* The query check and the assignment of giantbomb.FieldList.
suggestGamesHandlerQuery(r) ==
    /\ \E q \in SuggestRequests :
        /\ Serve(r, q)
        /\ IF ~suggestGamesHandlerHasQuery(q.query)
           THEN /\ Return(r, Error(resp[r], "Query is empty.", StatusBadRequest))
                /\ UNCHANGED <<FieldList, fieldListWriter>>
           ELSE /\ FieldList' = GameFieldList
                /\ fieldListWriter' = r
                /\ pc' = [pc EXCEPT ![r] = "search"]
                /\ UNCHANGED resp
    /\ UNCHANGED <<local, call, games, nextId, log, now, ticks>>

\* giantbomb.Search(query[0], 10, 1, ...), which reads giantbomb.FieldList,
\* then json.Marshal and the response.
suggestGamesHandlerSearch(r) ==
    /\ pc[r] = "search" /\ req[r].kind = "suggest"
    /\ \E err \in SearchOutcomes, merr \in MarshalOutcomes :
        /\ call' = [call EXCEPT ![r] =
                Append(@, Call("Search", <<req[r].query["q"][1], FieldList>>, err, 0))]
        /\ IF err # Nil
           THEN /\ Return(r, Error(resp[r], "Search failed.",
                                   StatusInternalServerError))
                /\ Println(r, err)
           ELSE IF merr # Nil
           THEN /\ Return(r, Error(resp[r], "Internal error.",
                                   StatusInternalServerError))
                /\ Println(r, merr)
           ELSE /\ Return(r, Write(resp[r], "application/json"))
                /\ UNCHANGED log
    /\ UNCHANGED <<req, local, games, nextId, FieldList, fieldListWriter, now, ticks>>

-----------------------------------------------------------------------------
Next ==
    \/ Tick
    \/ \E r \in Requests :
        \/ addHandlerParse(r)
        \/ AddGame(r)
        \/ addHandlerRespond(r)
        \/ quickAddHandlerParse(r)
        \/ quickAddHandlerRespond(r)
        \/ deleteHandlerParse(r)
        \/ DeleteGame(r)
        \/ deleteHandlerRespond(r)
        \/ indexHandlerGetAllGames(r)
        \/ indexHandlerRender(r)
        \/ gameHandler(r)
        \/ addHandlerGet(r)
        \/ suggestGamesHandlerQuery(r)
        \/ suggestGamesHandlerSearch(r)

Spec == Init /\ [][Next]_vars

-----------------------------------------------------------------------------
(* Properties.                                                             *)

\* Goroutine r takes a step.
Steps(r) == pc'[r] # pc[r]

IsFullAdd(q) == q.kind = "add" /\ q.method = "POST"

\* The dates of DateInputs that are calendar dates written YYYY-MM-DD, and
\* the day each names.
CalendarDates == (DateValid :> Time(2020, 12, 10, 0))
                 @@ (DateLeapDay :> Time(2020, 2, 29, 0))

\* A full add whose form parsed and whose beaten_on is neither empty nor a
\* calendar date.
HasMalformedDate(q) ==
    /\ IsFullAdd(q) /\ ~q.formErr
    /\ "beaten_on" \in DOMAIN q.form
    /\ q.form["beaten_on"][1] # DateEmpty
    /\ q.form["beaten_on"][1] \notin DOMAIN CalendarDates

\* C1: a full add (of a form that parses) whose beaten_on is a non-empty
\* string that is no YYYY-MM-DD calendar date is answered with 400 in the
\* step that serves it, without any call of data.AddGame, and the games table
\* is left as it was.
C1_MalformedDateRejected ==
    [][\A r \in Requests :
        (Steps(r) /\ HasMalformedDate(req'[r]))
        => /\ pc'[r] = "done"
           /\ resp'[r].status = StatusBadRequest
           /\ call'[r] = <<>>
           /\ games' = games]_vars

C1_Witness ==
    \E r \in Requests :
        /\ HasMalformedDate(req[r]) /\ pc[r] = "done"
        /\ req[r].form["beaten_on"][1] = DateNotADate
        /\ resp[r].body = <<"Failed to parse date.">>

\* The rows of the table that a delete of this name matches.
Matching(name) == {i \in 1..Len(games) : games[i].Name = name}

\* C2: when a delete (of a form that parses) names a game no row matches,
\* data.DeleteGame, unless it fails, reports 0 rows and leaves the table as
\* it was, and the handler then answers 400; it answers 500 only when the
\* storage call returned an error.
C2_DeleteNotFoundIsBadRequest ==
    [][\A r \in Requests :
        /\ (req[r].kind = "delete" /\ pc[r] = "store" /\ Steps(r)
              /\ Matching(Get(req[r].form, "name")) = {})
           => /\ games' = games
              /\ LET c == call'[r][Len(call'[r])]
                 IN c.op = "DeleteGame" /\ (c.err = Nil => c.rows = 0)
        /\ (req[r].kind = "delete" /\ pc[r] = "respond" /\ Steps(r))
           => /\ pc'[r] = "done"
              /\ (LastCall(r).err = Nil /\ LastCall(r).rows = 0
                    => resp'[r].status = StatusBadRequest)
              /\ (resp'[r].status = StatusInternalServerError
                    => LastCall(r).err # Nil)]_vars

C2_Witness ==
    \E r \in Requests :
        /\ req[r].kind = "delete" /\ pc[r] = "done"
        /\ Len(call[r]) = 1 /\ call[r][1].err = Nil /\ call[r][1].rows = 0
        /\ resp[r].status = StatusBadRequest

\* C3: a suggest request whose q is missing, or present and empty, is
\* answered with 400 and giantbomb.Search is never called for it.
C3_EmptyQueryRejected ==
    \A r \in Requests :
        (req[r].kind = "suggest" /\ Get(req[r].query, "q") = "")
        => /\ pc[r] = "done"
           /\ resp[r].status = StatusBadRequest
           /\ call[r] = <<>>

\* The messages the handlers pass to http.Error.
ErrorMessages ==
    {"Failed to get games.", "Failed to parse game ID.",
     "Failed to execute template.", "Failed to parse submitted form.",
     "Failed to parse date.", "Failed to add a game.",
     "Failed to delete a game.", "Can't find this game.", "Query is empty.",
     "Search failed.", "Internal error.", ErrTemplateParse, ErrTemplateExec}

\* C4: every request ends with exactly one response and no partial output:
\* no handler ends without a response (a panic), and an error message is the
\* whole body of a response that carries an error status.
C4_ExactlyOneResponse ==
    \A r \in Requests :
        /\ pc[r] # "panicked"
        /\ pc[r] = "done"
           => /\ resp[r].status # 0
              /\ \A i \in 1..Len(resp[r].body) :
                    resp[r].body[i] \in ErrorMessages
                    => resp[r].status >= StatusBadRequest /\ Len(resp[r].body) = 1

\* C5: a quick add of a form that parses builds the game with the submitted
\* name, no note and the server's clock at that moment as beatenOn, passes
\* exactly that game to its one data.AddGame call, and answers a bare 200
\* when the insert succeeds.
C5_QuickAddRecord ==
    [][\A r \in Requests :
        /\ (pc[r] = "idle" /\ Steps(r) /\ req'[r].kind = "quickAdd"
              /\ ~req'[r].formErr)
           => /\ pc'[r] = "store"
              /\ Len(local'[r]) = 1
              /\ local'[r][1].Name = Get(req'[r].form, "name")
              /\ ~local'[r][1].Note.Valid
              /\ local'[r][1].BeatenOn = [Time |-> now, Valid |-> TRUE]
        /\ (req[r].kind = "quickAdd" /\ pc[r] = "store" /\ Steps(r))
           => /\ Len(call'[r]) = 1
              /\ call'[r][1].op = "AddGame"
              /\ call'[r][1].arg = local[r][1]
        /\ (req[r].kind = "quickAdd" /\ pc[r] = "respond" /\ Steps(r)
              /\ LastCall(r).err = Nil)
           => /\ pc'[r] = "done"
              /\ resp'[r] = [status |-> StatusOK, body |-> <<>>, location |-> ""]]_vars

\* A quick add that carried a beaten_on of its own, served after the clock
\* moved to the next day, stored the server's date and got its 200.
C5_Witness ==
    \E r \in Requests :
        /\ req[r].kind = "quickAdd" /\ pc[r] = "done"
        /\ "beaten_on" \in DOMAIN req[r].form
        /\ call[r][1].arg.BeatenOn.Time = Time(2021, 1, 1, 0)
        /\ call[r][1].err = Nil
        /\ resp[r].status = StatusOK

\* The game a full add is to store, when its beaten_on is empty or a
\* calendar date.
ExpectedGame(form) ==
    LET d == form["beaten_on"][1] IN
    [ID |-> 0,
     Name |-> Get(form, "name"),
     Note |-> [String |-> Get(form, "note"), Valid |-> TRUE],
     BeatenOn |-> [Time |-> IF d = DateEmpty THEN ZeroTime ELSE CalendarDates[d],
                   Valid |-> TRUE]]

\* C6: a full add that succeeds (is answered with the redirect) made one
\* data.AddGame call, which did not fail, with the submitted name, the
\* submitted note marked present (blank when none was submitted) and a
\* beatenOn marked present: the parsed date, or the zero date when beaten_on
\* was empty; that call added exactly this one row; the answer is 307 to /.
C6_FullAddRecord ==
    [][\A r \in Requests :
        /\ (IsFullAdd(req[r]) /\ pc[r] = "store" /\ Steps(r)
              /\ call'[r][Len(call'[r])].err = Nil)
           => games' = Append(games, [local[r][1] EXCEPT !.ID = nextId])
        /\ (IsFullAdd(req'[r]) /\ Steps(r) /\ pc'[r] = "done"
              /\ resp'[r].status \in 200..399)
           => /\ "beaten_on" \in DOMAIN req[r].form
              /\ req[r].form["beaten_on"][1] \in DOMAIN CalendarDates \cup {DateEmpty}
              /\ call[r] = <<Call("AddGame", ExpectedGame(req[r].form), Nil, 0)>>
              /\ resp'[r] = [status |-> StatusTemporaryRedirect, body |-> <<>>,
                             location |-> "/"]]_vars

\* A full add with no note and an empty beaten_on was stored and redirected.
C6_Witness ==
    \E r \in Requests :
        /\ IsFullAdd(req[r]) /\ pc[r] = "done"
        /\ resp[r].status = StatusTemporaryRedirect
        /\ "note" \notin DOMAIN req[r].form
        /\ req[r].form["beaten_on"][1] = DateEmpty
        /\ call[r][1].arg.BeatenOn = [Time |-> ZeroTime, Valid |-> TRUE]
        /\ call[r][1].arg.Note = [String |-> "", Valid |-> TRUE]

\* C7 as stated: a form that does not parse is answered with 400, before any
\* field is read and before any storage call.
C7_ParseFailureIsBadRequest ==
    \A r \in Requests :
        req[r].formErr
        => /\ resp[r].status = StatusBadRequest
           /\ local[r] = <<>>
           /\ call[r] = <<>>

\* C7, amended: a form that does not parse is answered with 500 and the
\* message "Failed to parse submitted form.", before any field is read and
\* before any storage call, in the add, quick-add and delete handlers.
C7_ParseFailureIsServerError ==
    \A r \in Requests :
        req[r].formErr
        => /\ pc[r] = "done"
           /\ resp[r].status = StatusInternalServerError
           /\ resp[r].body = <<"Failed to parse submitted form.">>
           /\ local[r] = <<>>
           /\ call[r] = <<>>

\* A delete and a full add whose forms did not parse were both answered.
C7_Witness ==
    \A k \in {"add", "delete"} :
        \E r \in Requests :
            req[r].kind = k /\ req[r].formErr /\ pc[r] = "done"

StorageCalls == {"GetAllGames", "AddGame", "DeleteGame"}

\* The message each handler sends when its storage call fails.
StorageFailureMessage ==
    ("index" :> "Failed to get games.") @@ ("add" :> "Failed to add a game.")
    @@ ("quickAdd" :> "Failed to add a game.")
    @@ ("delete" :> "Failed to delete a game.")

\* C8: a request whose storage call returned an error is answered with 500
\* and the handler's fixed message, and the error was logged by the time the
\* handler returned.
C8_StorageErrorLogged ==
    \A r \in Requests :
        (pc[r] = "done" /\ call[r] # <<>> /\ LastCall(r).op \in StorageCalls
           /\ LastCall(r).err # Nil)
        => /\ resp[r].status = StatusInternalServerError
           /\ resp[r].body = <<StorageFailureMessage[req[r].kind]>>
           /\ [req |-> r, err |-> LastCall(r).err] \in log

\* C9: no request works on process-wide state another request has written:
\* a request about to call giantbomb.Search finds in giantbomb.FieldList the
\* assignment it made itself.
C9_NoSharedProcessState ==
    \A r \in Requests : pc[r] = "search" => fieldListWriter = r

IsStoring(q) == IsFullAdd(q) \/ q.kind \in {"quickAdd", "delete"}

\* C10: in the full-add, quick-add and delete flows a success status is sent
\* only after the request's one storage call returned without error (for a
\* delete, with at least one row affected), and no request makes a second
\* storage call.
C10_SuccessAfterStorage ==
    \A r \in Requests :
        IsStoring(req[r])
        => /\ Len(call[r]) <= 1
           /\ resp[r].status \in 200..399
              => /\ Len(call[r]) = 1
                 /\ call[r][1].err = Nil
                 /\ req[r].kind = "delete" => call[r][1].rows >= 1

\* A delete that removed both rows of its name was answered with 200, and a
\* full add whose insert failed with 500.
C10_Witness ==
    /\ \E r \in Requests :
        /\ req[r].kind = "delete" /\ resp[r].status = StatusOK
        /\ call[r][1].rows = 2
    /\ \E r \in Requests :
        /\ IsFullAdd(req[r]) /\ pc[r] = "done"
        /\ Len(call[r]) = 1 /\ call[r][1].err # Nil
        /\ resp[r].status = StatusInternalServerError

=============================================================================
